---- MODULE Spec2Model ----
(***************************************************************************)
(* LipsyncPipeline.__call__ (src/latentsync/pipelines/lipsync_pipeline.py) *)
(* as a state machine: one action per statement group of the call, in the  *)
(* order the code runs them.                                               *)
(*                                                                         *)
(* Tensors are modelled by what the orchestration does with them:          *)
(*   - a sequence along the frame/batch axis is a TLA+ sequence; position  *)
(*     p of the model is Python index p-1;                                 *)
(*   - the elements are tokens naming where a value came from (frame k of  *)
(*     the video, whisper chunk k, frame k of the noise tensor), so that   *)
(*     slicing, concatenation and indexing can be followed exactly;        *)
(*   - pixel and prediction values are exact numbers (rationals n/d where  *)
(*     the code divides), one representative element per tensor, since the *)
(*     arithmetic of the pipeline is element-wise.                         *)
(* The external collaborators (VAE, UNet, scheduler, face aligner, cv2,    *)
(* ffmpeg) appear only through the values handed to them and the tokens    *)
(* they hand back.                                                         *)
(***************************************************************************)
EXTENDS Integers, Sequences, FiniteSets, TLC

VARIABLES
    args,                 \* the arguments of __call__
    env,                  \* the world the call runs in: files, models, scheduler
    pc,                   \* position of the call
    raised,               \* "" or the place the call raised at
    self,                 \* fields of the pipeline object the call assigns
    generator,            \* state of the random generator: draws consumed
    effects,              \* work done so far (reads, alignments, allocations)
    prep,                 \* locals assigned before the chunk loop
    chunk,                \* locals of the current iteration of the chunk loop
    step,                 \* what the last denoising step did
    synced_video_frames,  \* list of the chunks' composited frames
    rest,                 \* restore_video: its loop and result
    mux                   \* trimmed audio and the files written for ffmpeg

vars == <<args, env, pc, raised, self, generator, effects, prep, chunk, step,
          synced_video_frames, rest, mux>>

----------------------------------------------------------------------------
(* Bounds of the model *)

MaxN == 2          \* num_frames ranges over 1..MaxN
MaxFrames == 5     \* video frames and whisper chunks range over 0..MaxFrames
MaxSteps == 2      \* num_inference_steps ranges over 1..MaxSteps
MaxPred == 1       \* a UNet output element ranges over 0..MaxPred

(* Program constants *)

vae_scale_factor == 8     \* 2 ** (len(block_out_channels) - 1), four blocks
write_video_fps == 25     \* write_video(..., fps=25)
uint8_max == 255          \* (face * 255).to(torch.uint8), restored / 255.0

----------------------------------------------------------------------------
(* Python and tensor primitives *)

Min(a, b) == IF a <= b THEN a ELSE b

Max(a, b) == IF a >= b THEN a ELSE b

\* range(n) as a list
Range(n) == [k \in 1..n |-> k - 1]

\* s[a:b] for 0 <= a <= b: indices a .. b-1, clipped to the length
Slice(s, a, b) == SubSeq(s, Min(a, Len(s)) + 1, Min(b, Len(s)))

\* s * k for a list, torch.cat([s] * k) for a tensor
RECURSIVE Repeat(_, _)
Repeat(s, k) == IF k <= 0 THEN <<>> ELSE s \o Repeat(s, k - 1)

\* torch.cat of a list of tensors along dim 0
RECURSIVE Cat(_)
Cat(ts) == IF ts = <<>> THEN <<>> ELSE Head(ts) \o Cat(Tail(ts))

\* tensor.chunk(2) along dim 0
Chunk2(t) == <<SubSeq(t, 1, Len(t) \div 2), SubSeq(t, Len(t) \div 2 + 1, Len(t))>>

\* exact rationals n/d, d > 0
Rat(n, d) == [n |-> n, d |-> d]

RatEq(x, y) == x.n * y.d = y.n * x.d

RatLess(x, y) == x.n * y.d < y.n * x.d

RatMax(x, y) == IF RatLess(x, y) THEN y ELSE x

\* int(x) for a rational x >= 0
RatInt(x) == x.n \div x.d

----------------------------------------------------------------------------
(* Inputs: the arguments of __call__ and the world it runs in.  Init draws *)
(* them from families that each vary one concern jointly and leave the     *)
(* rest at a default.                                                      *)

\* None is 0 for height/width (`height or default` treats both alike)
None == [kind |-> "None", val |-> 0]

IntVal(v) == [kind |-> "int", val |-> v]

FloatVal(v) == [kind |-> "float", val |-> v]

ArgsDefault ==
    [num_frames |-> 1, video_fps |-> 25, audio_sample_rate |-> 16000,
     height |-> 0, width |-> 0, num_inference_steps |-> 2,
     guidance_scale |-> Rat(3, 2), callback |-> FALSE,
     callback_steps |-> IntVal(1), superres |-> "none"]

EnvDefault ==
    [video_len |-> 2, whisper_len |-> 2, audio_len |-> 100000,
     add_audio_layer |-> TRUE, unet_training |-> FALSE,
     ffmpeg_installed |-> TRUE, timesteps_len |-> 2, order |-> 1,
     sample_size |-> 2, box_h |-> 16, box_w |-> 16,
     decoded |-> <<1, 0, -1>>, pixel |-> <<-1, 1, 0>>, mask |-> 0,
     unet_null |-> 0, unet_audio |-> 1, callback_raises |-> FALSE]

GuidanceVals == {Rat(1, 2), Rat(1, 1), Rat(3, 2), Rat(2, 1)}

\* windowing, guidance and the UNet's outputs
ChunkingScenarios ==
    {<<[ArgsDefault EXCEPT !.num_frames = n, !.guidance_scale = g],
       [EnvDefault EXCEPT !.video_len = f, !.whisper_len = w,
                          !.add_audio_layer = a, !.unet_null = pu,
                          !.unet_audio = pa]>> :
        n \in 1..MaxN, g \in GuidanceVals, f \in 0..MaxFrames,
        w \in 0..MaxFrames, a \in BOOLEAN, pu \in 0..MaxPred, pa \in 0..MaxPred}

SizeVals == {<<0, 0>>, <<16, 16>>, <<8, 16>>, <<12, 12>>, <<0, 12>>, <<20, 0>>}

CallbackStepsVals == {None, FloatVal(1), IntVal(-1), IntVal(0), IntVal(1), IntVal(2)}

\* validation, the encoder check and the denoiser's mode
ConfigScenarios ==
    {<<[ArgsDefault EXCEPT !.height = hw[1], !.width = hw[2], !.callback_steps = cs],
       [EnvDefault EXCEPT !.ffmpeg_installed = ff, !.unet_training = tr,
                          !.video_len = f]>> :
        hw \in SizeVals, cs \in CallbackStepsVals, ff \in BOOLEAN, tr \in BOOLEAN,
        f \in {0, 2}}

\* len(timesteps) after set_timesteps(n): n * order, or one more or less
\* (PNDM with skip_prk_steps has n + 1, Heun has 2n - 1)
TimestepLens(n, order) == {t \in {n * order - 1, n * order, n * order + 1} : t >= 1}

\* the denoising loop's progress ticks and callback
CadenceScenarios ==
    {<<[ArgsDefault EXCEPT !.num_inference_steps = x[1], !.callback = cb,
                           !.callback_steps = IntVal(cs)],
       [EnvDefault EXCEPT !.order = x[2], !.timesteps_len = x[3],
                          !.video_len = 1, !.whisper_len = 1]>> :
        x \in {y \in (1..MaxSteps) \X (1..2) \X (1..(2 * MaxSteps + 1)) :
                  y[3] \in TimestepLens(y[1], y[2])},
        cb \in BOOLEAN, cs \in 1..3}

FpsVals == {20, 25, 50}

SampleRateVals == {8000, 16000}

AudioLenVals == {0, 500, 100000}

\* the trimmed audio and the files handed to ffmpeg
MuxScenarios ==
    {<<[ArgsDefault EXCEPT !.num_frames = n, !.video_fps = fps,
                           !.audio_sample_rate = sr],
       [EnvDefault EXCEPT !.video_len = f, !.whisper_len = f, !.audio_len = al,
                          !.add_audio_layer = a]>> :
        n \in 1..MaxN, fps \in FpsVals, sr \in SampleRateVals,
        f \in 1..MaxFrames - 1, al \in AudioLenVals, a \in BOOLEAN}

SuperresVals == {"none", "GFPGAN", "CodeFormer", "other"}

BoxVals == {8, 16, 24}

ColourVals == {<<-1, -1, -1>>, <<1, 0, -1>>, <<0, 0, 0>>, <<1, 1, 1>>}

\* restoration into the original frames, with and without super-resolution
RestoreScenarios ==
    {<<[ArgsDefault EXCEPT !.superres = sr, !.height = hw, !.width = hw],
       [EnvDefault EXCEPT !.box_h = bh, !.box_w = bw, !.decoded = c,
                          !.video_len = 1, !.whisper_len = 1]>> :
        sr \in SuperresVals, hw \in {0, 8}, bh \in BoxVals, bw \in BoxVals,
        c \in ColourVals}

\* the local composite of decoded and original pixels
CompositeScenarios ==
    {<<ArgsDefault,
       [EnvDefault EXCEPT !.decoded = d, !.pixel = p, !.mask = m,
                          !.video_len = 1, !.whisper_len = 1]>> :
        d \in ColourVals, p \in ColourVals, m \in {0, 1}}

\* a callback that raises to abort the run, and the denoiser's mode
AbortScenarios ==
    {<<[ArgsDefault EXCEPT !.callback = TRUE, !.callback_steps = IntVal(cs)],
       [EnvDefault EXCEPT !.callback_raises = cr, !.unet_training = tr,
                          !.timesteps_len = t]>> :
        cs \in 1..2, cr \in BOOLEAN, tr \in BOOLEAN, t \in 1..MaxSteps + 1}

Scenarios ==
    ChunkingScenarios \cup ConfigScenarios \cup CadenceScenarios \cup
    MuxScenarios \cup RestoreScenarios \cup CompositeScenarios \cup
    AbortScenarios

PrepInit ==
    [is_train |-> FALSE, faces |-> <<>>, video_frames |-> <<>>, boxes |-> <<>>,
     affine_matrices |-> <<>>, audio_samples |-> 0, height |-> 0, width |-> 0,
     do_classifier_free_guidance |-> FALSE, timesteps |-> <<>>,
     whisper_chunks |-> <<>>, num_inferences |-> 0, all_latents |-> <<>>]

ChunkInit ==
    [i |-> 0, j |-> 0, generator_in |-> 0, audio_embeds |-> <<>>,
     inference_faces |-> <<>>, noise |-> <<>>, latents |-> <<>>,
     pixel_values |-> <<>>, masks |-> <<>>, mask_latents |-> <<>>,
     masked_image_latents |-> <<>>, image_latents |-> <<>>,
     num_warmup_steps |-> 0, progress |-> <<>>, callbacks |-> <<>>, steps |-> <<>>]

StepInit ==
    [called |-> FALSE, j |-> 0, t |-> 0, sample |-> <<>>,
     encoder_hidden_states |-> <<>>, unet_out |-> <<>>, doubled |-> FALSE,
     noise_pred |-> Rat(0, 1), latents_in |-> <<>>, latents_out |-> <<>>,
     tick |-> FALSE, callback_calls |-> 0]

NoPatch == [value |-> <<>>, h |-> 0, w |-> 0]

RestInit ==
    [faces |-> <<>>, video_frames |-> <<>>, index |-> 0, out_frames |-> <<>>,
     stacked |-> FALSE,
     last |-> [entered |-> FALSE, index |-> 0, face |-> NoPatch, height |-> 0,
               width |-> 0, superres |-> "", scale_factor |-> Rat(0, 1),
               upscaled |-> NoPatch, resized |-> NoPatch, image |-> <<>>]]

MuxInit ==
    [audio_samples_remain_length |-> 0, audio_samples |-> 0,
     video |-> [frames |-> 0, fps |-> 0], audio |-> [samples |-> 0, rate |-> 0],
     muxed |-> FALSE]

Init ==
    /\ \E s \in Scenarios : args = s[1] /\ env = s[2]
    /\ pc = "start"
    /\ raised = ""
    /\ self = [superres |-> "none", unet_training |-> env.unet_training, video_fps |-> 0]
    /\ generator = 0
    /\ effects = {}
    /\ prep = PrepInit
    /\ chunk = ChunkInit
    /\ step = StepInit
    /\ synced_video_frames = <<>>
    /\ rest = RestInit
    /\ mux = MuxInit

----------------------------------------------------------------------------
(* The call, up to the chunk loop *)

Raise(where) ==
    /\ pc' = "raised"
    /\ raised' = where

\* self.superres = superres; is_train = self.unet.training; self.unet.eval()
Enter ==
    /\ pc = "start"
    /\ self' = [self EXCEPT !.superres = args.superres, !.unet_training = FALSE]
    /\ prep' = [prep EXCEPT !.is_train = self.unet_training]
    /\ pc' = "check_ffmpeg"
    /\ UNCHANGED <<args, env, raised, generator, effects, chunk, step,
                   synced_video_frames, rest, mux>>

\* check_ffmpeg_installed(): raises when the encoder is not on the host
CheckFfmpeg ==
    /\ pc = "check_ffmpeg"
    /\ IF env.ffmpeg_installed
       THEN pc' = "affine_transform_video" /\ UNCHANGED raised
       ELSE Raise("check_ffmpeg_installed")
    /\ UNCHANGED <<args, env, self, generator, effects, prep, chunk, step,
                   synced_video_frames, rest, mux>>

\* the bounding box the aligner returns for frame k
Box(k) == [frame |-> k, x1 |-> 0, y1 |-> 0, x2 |-> env.box_w, y2 |-> env.box_h]

\* ImageProcessor(...); affine_transform_video(video_path): reads every frame,
\* aligns every face, and stacks the faces (torch.stack raises on no frame)
AffineTransformVideo ==
    /\ pc = "affine_transform_video"
    /\ LET frames == Range(env.video_len) IN
       IF frames = <<>>
       THEN /\ effects' = effects \cup {"image_processor", "video_read"}
            /\ Raise("affine_transform_video")
            /\ UNCHANGED prep
       ELSE /\ effects' = effects \cup {"image_processor", "video_read",
                                        "faces_aligned", "tensor_allocated"}
            /\ prep' = [prep EXCEPT
                   !.video_frames = frames,
                   !.faces = [k \in DOMAIN frames |-> frames[k]],
                   !.boxes = [k \in DOMAIN frames |-> Box(frames[k])],
                   !.affine_matrices = [k \in DOMAIN frames |-> frames[k]]]
            /\ pc' = "read_audio"
            /\ UNCHANGED raised
    /\ UNCHANGED <<args, env, self, generator, chunk, step,
                   synced_video_frames, rest, mux>>

\* audio_samples = read_audio(audio_path)
ReadAudio ==
    /\ pc = "read_audio"
    /\ effects' = effects \cup {"audio_read", "tensor_allocated"}
    /\ prep' = [prep EXCEPT !.audio_samples = env.audio_len]
    /\ pc' = "check_inputs"
    /\ UNCHANGED <<args, env, raised, self, generator, chunk, step,
                   synced_video_frames, rest, mux>>

\* height or self.unet.config.sample_size * self.vae_scale_factor
OrDefault(size) == IF size = 0 THEN env.sample_size * vae_scale_factor ELSE size

\* check_inputs: "" when it returns, else the exception it raises
check_inputs(height, width, callback_steps) ==
    IF height # width THEN "AssertionError"
    ELSE IF height % 8 # 0 \/ width % 8 # 0 THEN "ValueError"
    ELSE IF \/ callback_steps.kind = "None"
            \/ callback_steps.kind # "int"
            \/ callback_steps.val <= 0
         THEN "ValueError"
         ELSE ""

\* default height and width, then self.check_inputs(height, width, callback_steps)
CheckInputs ==
    /\ pc = "check_inputs"
    /\ LET height == OrDefault(args.height)
           width == OrDefault(args.width)
       IN /\ prep' = [prep EXCEPT !.height = height, !.width = width]
          /\ IF check_inputs(height, width, args.callback_steps) = ""
             THEN pc' = "set_timesteps" /\ UNCHANGED raised
             ELSE Raise("check_inputs")
    /\ UNCHANGED <<args, env, self, generator, effects, chunk, step,
                   synced_video_frames, rest, mux>>

\* guidance_scale > 1.0
GuidanceActive(guidance_scale) == RatLess(Rat(1, 1), guidance_scale)

\* do_classifier_free_guidance; scheduler.set_timesteps; self.video_fps = video_fps
SetTimesteps ==
    /\ pc = "set_timesteps"
    /\ prep' = [prep EXCEPT
           !.do_classifier_free_guidance = GuidanceActive(args.guidance_scale),
           !.timesteps = [k \in 1..env.timesteps_len |-> env.timesteps_len - k]]
    /\ self' = [self EXCEPT !.video_fps = args.video_fps]
    /\ pc' = "audio2feat"
    /\ UNCHANGED <<args, env, raised, generator, effects, chunk, step,
                   synced_video_frames, rest, mux>>

\* the embedding of whisper chunk k
Embed(k) == [zero |-> FALSE, idx |-> k]

\* num_inferences of the two branches of `if self.unet.add_audio_layer`
NumInferences(add_audio_layer, faces, whisper_chunks, num_frames) ==
    IF add_audio_layer
    THEN Min(Len(faces), Len(whisper_chunks)) \div num_frames
    ELSE Len(faces) \div num_frames

\* audio2feat and feature2chunks when the UNet has an audio layer; num_inferences
AudioFeatures ==
    /\ pc = "audio2feat"
    /\ LET whisper_chunks ==
               IF env.add_audio_layer
               THEN [k \in 1..env.whisper_len |-> Embed(k - 1)]
               ELSE <<>>
       IN prep' = [prep EXCEPT
              !.whisper_chunks = whisper_chunks,
              !.num_inferences = NumInferences(env.add_audio_layer, prep.faces,
                                               whisper_chunks, args.num_frames)]
    /\ effects' = IF env.add_audio_layer THEN effects \cup {"audio_features"} ELSE effects
    /\ pc' = "prepare_latents"
    /\ UNCHANGED <<args, env, raised, self, generator, chunk, step,
                   synced_video_frames, rest, mux>>

\* prepare_latents: ONE frame of noise is drawn (draw number g of the generator)
\* and repeated num_frames times along the frame axis; `frame` is the position
\* of the copy.  The scaling by init_noise_sigma is the scheduler's.
prepare_latents(num_frames, g) == [k \in 1..num_frames |-> [draw |-> g, frame |-> k - 1]]

\* all_latents = self.prepare_latents(batch_size, num_frames * num_inferences, ...)
PrepareLatents ==
    /\ pc = "prepare_latents"
    /\ prep' = [prep EXCEPT
           !.all_latents = prepare_latents(args.num_frames * prep.num_inferences, generator)]
    /\ generator' = generator + 1
    /\ effects' = effects \cup {"noise_drawn"}
    /\ pc' = "loop"
    /\ UNCHANGED <<args, env, raised, self, chunk, step,
                   synced_video_frames, rest, mux>>

----------------------------------------------------------------------------
(* The chunk loop: for i in range(num_inferences) *)

\* torch.zeros_like
zeros_like(t) == [k \in DOMAIN t |-> [zero |-> TRUE, idx |-> 0]]

\* a slip in the batch order: the null embeddings behind the real ones
AudioEmbedsNullLast(whisper_chunks, i, num_frames, do_classifier_free_guidance) ==
    LET audio_embeds == Slice(whisper_chunks, i * num_frames, (i + 1) * num_frames)
    IN IF do_classifier_free_guidance
       THEN audio_embeds \o zeros_like(audio_embeds)
       ELSE audio_embeds

\* audio_embeds of chunk i when the UNet has an audio layer: the stacked slice,
\* with the null embeddings concatenated in front of it under guidance
AudioEmbeds(whisper_chunks, i, num_frames, do_classifier_free_guidance) ==
    LET audio_embeds == Slice(whisper_chunks, i * num_frames, (i + 1) * num_frames)
    IN IF do_classifier_free_guidance
       THEN zeros_like(audio_embeds) \o audio_embeds
       ELSE audio_embeds

\* a slip in the window: the start not multiplied by num_frames
InferenceFacesUnscaled(faces, i, num_frames) == Slice(faces, i, i + num_frames)

\* inference_faces = faces[i * num_frames : (i + 1) * num_frames]
InferenceFaces(faces, i, num_frames) == Slice(faces, i * num_frames, (i + 1) * num_frames)

\* latents = all_latents[:, :, i * num_frames : (i + 1) * num_frames]: a batch of
\* one sample, which no scheduler step has touched yet
LatentsOf(all_latents, i, num_frames) ==
    <<[noise |-> Slice(all_latents, i * num_frames, (i + 1) * num_frames), steps |-> <<>>]>>

\* image_processor.prepare_masks_and_masked_images(inference_faces): per frame the
\* pixels of the face, the pixels with the mask applied, and the mask
PixelValues(inference_faces) ==
    [f \in DOMAIN inference_faces |-> [face |-> inference_faces[f], value |-> env.pixel]]

Masks(inference_faces) == [f \in DOMAIN inference_faces |-> env.mask]

MaskedPixelValues(pixel_values, masks) ==
    [f \in DOMAIN pixel_values |->
        [face |-> pixel_values[f].face,
         value |-> [c \in 1..3 |-> pixel_values[f].value[c] * masks[f]]]]

\* prepare_mask_latents: the interpolated mask, and the VAE posterior of the
\* masked image sampled with draw g of the generator; both doubled under guidance
prepare_mask_latents(mask, masked_image, g, do_classifier_free_guidance) ==
    LET m == <<[interpolated |-> mask]>>
        l == <<[encoded |-> masked_image, draw |-> g]>>
    IN IF do_classifier_free_guidance
       THEN <<Repeat(m, 2), Repeat(l, 2)>>
       ELSE <<m, l>>

\* prepare_image_latents: the VAE posterior of the faces sampled with draw g
prepare_image_latents(images, g, do_classifier_free_guidance) ==
    LET l == <<[encoded |-> images, draw |-> g]>>
    IN IF do_classifier_free_guidance THEN Repeat(l, 2) ELSE l

\* the head of the loop and the body of an iteration up to the denoising loop
ChunkSetup ==
    /\ pc = "loop"
    /\ chunk.i < prep.num_inferences
    /\ LET i == chunk.i
           cfg == prep.do_classifier_free_guidance
           inference_faces == InferenceFaces(prep.faces, i, args.num_frames)
           pixel_values == PixelValues(inference_faces)
           masks == Masks(inference_faces)
           ml == prepare_mask_latents(masks, MaskedPixelValues(pixel_values, masks),
                                      generator, cfg)
       IN chunk' = [chunk EXCEPT
              !.j = 0,
              !.generator_in = generator,
              !.audio_embeds =
                  IF env.add_audio_layer
                  THEN AudioEmbeds(prep.whisper_chunks, i, args.num_frames, cfg)
                  ELSE <<>>,
              !.inference_faces = inference_faces,
              !.noise = Slice(prep.all_latents, i * args.num_frames, (i + 1) * args.num_frames),
              !.latents = LatentsOf(prep.all_latents, i, args.num_frames),
              !.pixel_values = pixel_values,
              !.masks = masks,
              !.mask_latents = ml[1],
              !.masked_image_latents = ml[2],
              !.image_latents = prepare_image_latents(pixel_values, generator + 1, cfg),
              !.num_warmup_steps =
                  Len(prep.timesteps) - args.num_inference_steps * env.order,
              !.progress = <<>>,
              !.callbacks = <<>>,
              !.steps = <<>>]
    /\ generator' = generator + 2
    /\ effects' = effects \cup {"vae_encoded"}
    /\ pc' = IF Len(prep.timesteps) = 0 THEN "decode" ELSE "denoise"
    /\ UNCHANGED <<args, env, raised, self, prep, step, synced_video_frames, rest, mux>>

\* torch.cat([latent_model_input, mask_latents, masked_image_latents,
\* image_latents], dim=1): the channels of each batch element
CatChannels(latent_model_input, mask_latents, masked_image_latents, image_latents) ==
    [b \in DOMAIN latent_model_input |->
        [latents |-> latent_model_input[b], mask |-> mask_latents[b],
         masked_image |-> masked_image_latents[b], image |-> image_latents[b]]]

\* the number the UNet returns for a batch element, by its conditioning
UNetVal(cond) ==
    IF cond # <<>> /\ \A k \in DOMAIN cond : cond[k].zero
    THEN env.unet_null
    ELSE env.unet_audio

\* self.unet(sample, t, encoder_hidden_states).sample: batch element b is
\* conditioned on its own frames of encoder_hidden_states, (b f) laid out batch
\* first; <<>> is None
UNet(sample, t, encoder_hidden_states) ==
    LET frames == Len(encoder_hidden_states) \div Len(sample) IN
    [b \in DOMAIN sample |->
        LET cond == Slice(encoder_hidden_states, (b - 1) * frames, b * frames)
        IN [cond |-> cond, val |-> UNetVal(cond)]]

\* noise_pred_uncond + guidance_scale * (noise_pred_audio - noise_pred_uncond)
\* with noise_pred_uncond, noise_pred_audio = noise_pred.chunk(2)
Guide(noise_pred, guidance_scale) ==
    LET noise_pred_uncond == Chunk2(noise_pred)[1][1].val
        noise_pred_audio == Chunk2(noise_pred)[2][1].val
    IN Rat(guidance_scale.d * noise_pred_uncond
             + guidance_scale.n * (noise_pred_audio - noise_pred_uncond),
           guidance_scale.d)

\* a slip in the recurrence: the step applied to a sample that forgot the
\* steps already taken
SchedulerStepRestart(t, latents) == <<[latents[1] EXCEPT !.steps = <<t>>]>>

\* scheduler.step(noise_pred, t, latents).prev_sample: the sample advanced
\* through timestep t
SchedulerStep(t, latents) == <<[latents[1] EXCEPT !.steps = Append(@, t)]>>

\* a slip in the cadence: the final step not forced
FiresNoFinal(j, timesteps, num_warmup_steps, order) ==
    (j + 1) > num_warmup_steps /\ (j + 1) % order = 0

\* j == len(timesteps) - 1 or ((j + 1) > num_warmup_steps and (j + 1) % order == 0)
Fires(j, timesteps, num_warmup_steps, order) ==
    \/ j = Len(timesteps) - 1
    \/ ((j + 1) > num_warmup_steps /\ (j + 1) % order = 0)

\* callback is not None and j % callback_steps == 0
CallbackDue(callback, j, callback_steps) == callback /\ j % callback_steps.val = 0

\* one iteration of `for j, t in enumerate(timesteps)`; the callback, when it
\* is invoked, may raise to abort the run
DenoiseStep ==
    /\ pc = "denoise"
    /\ chunk.j < Len(prep.timesteps)
    /\ LET j == chunk.j
           t == prep.timesteps[j + 1]
           cfg == prep.do_classifier_free_guidance
           latent_model_input == IF cfg THEN Repeat(chunk.latents, 2) ELSE chunk.latents
           sample == CatChannels(latent_model_input, chunk.mask_latents,
                                 chunk.masked_image_latents, chunk.image_latents)
           unet_out == UNet(sample, t, chunk.audio_embeds)
           noise_pred == IF cfg THEN Guide(unet_out, args.guidance_scale)
                                ELSE Rat(unet_out[1].val, 1)
           latents == SchedulerStep(t, chunk.latents)
           tick == Fires(j, prep.timesteps, chunk.num_warmup_steps, env.order)
           call == tick /\ CallbackDue(args.callback, j, args.callback_steps)
       IN /\ step' = [called |-> TRUE, j |-> j, t |-> t, sample |-> sample,
                      encoder_hidden_states |-> chunk.audio_embeds,
                      unet_out |-> unet_out, doubled |-> Len(sample) = 2,
                      noise_pred |-> noise_pred,
                      latents_in |-> chunk.latents, latents_out |-> latents,
                      tick |-> tick, callback_calls |-> IF call THEN 1 ELSE 0]
          /\ chunk' = [chunk EXCEPT
                 !.j = j + 1,
                 !.latents = latents,
                 !.steps = Append(@, t),
                 !.progress = IF tick THEN Append(@, j) ELSE @,
                 !.callbacks = IF call THEN Append(@, j) ELSE @]
          /\ IF call /\ env.callback_raises
             THEN Raise("callback")
             ELSE /\ pc' = IF j + 1 = Len(prep.timesteps) THEN "decode" ELSE "denoise"
                  /\ UNCHANGED raised
    /\ UNCHANGED <<args, env, self, generator, effects, prep,
                   synced_video_frames, rest, mux>>

\* decode_latents: (b f) frames of the decoded sample
decode_latents(latents) ==
    Cat([b \in DOMAIN latents |->
            [f \in DOMAIN latents[b].noise |->
                [latents |-> latents[b], frame |-> f - 1, value |-> env.decoded]]])

\* 1 - masks
OneMinus(masks) == [f \in DOMAIN masks |-> 1 - masks[f]]

\* a slip in the blend: the two sources exchanged
paste_exchanged(decoded_latents, pixel_values, masks) ==
    [f \in DOMAIN decoded_latents |->
        [c \in 1..3 |-> decoded_latents[f][c] * (1 - masks[f]) + pixel_values[f][c] * masks[f]]]

\* paste_surrounding_pixels_back: decoded_latents * masks + pixel_values * (1 - masks)
paste_surrounding_pixels_back(decoded_latents, pixel_values, masks) ==
    [f \in DOMAIN decoded_latents |->
        [c \in 1..3 |-> decoded_latents[f][c] * masks[f] + pixel_values[f][c] * (1 - masks[f])]]

\* the values of a sequence of frames
Values(frames) == [f \in DOMAIN frames |-> frames[f].value]

\* decode, composite with 1 - masks, append to synced_video_frames; next i
DecodeComposite ==
    /\ pc = "decode"
    /\ LET decoded_latents == decode_latents(chunk.latents)
           combined == paste_surrounding_pixels_back(
                           Values(decoded_latents), Values(chunk.pixel_values),
                           OneMinus(chunk.masks))
           frames == [f \in DOMAIN combined |->
                        [value |-> combined[f],
                         decoded |-> decoded_latents[f],
                         face |-> chunk.pixel_values[f].face,
                         audio |-> chunk.audio_embeds,
                         generator_in |-> chunk.generator_in]]
       IN synced_video_frames' = Append(synced_video_frames, frames)
    /\ chunk' = [chunk EXCEPT !.i = chunk.i + 1]
    /\ effects' = effects \cup {"vae_decoded"}
    /\ pc' = "loop"
    /\ UNCHANGED <<args, env, raised, self, generator, prep, step, rest, mux>>

----------------------------------------------------------------------------
(* restore_video, the audio trim and the mux *)

\* torch.cat(synced_video_frames) raises on an empty list; restore_video then
\* starts with video_frames = video_frames[: faces.shape[0]]
RestoreVideoEnter ==
    /\ pc = "loop"
    /\ chunk.i >= prep.num_inferences
    /\ IF synced_video_frames = <<>>
       THEN /\ Raise("torch.cat")
            /\ UNCHANGED rest
       ELSE /\ LET faces == Cat(synced_video_frames) IN
               rest' = [rest EXCEPT
                   !.faces = faces,
                   !.video_frames = Slice(prep.video_frames, 0, Len(faces)),
                   !.index = 0,
                   !.out_frames = <<>>]
            /\ pc' = "restore"
            /\ UNCHANGED raised
    /\ UNCHANGED <<args, env, self, generator, effects, prep, chunk, step,
                   synced_video_frames, mux>>

\* a face patch: a (C, H, W) tensor of one colour, its channels exact rationals
Patch(value, h, w) == [value |-> value, h |-> h, w |-> w]

\* cv2.cvtColor RGB2BGR and BGR2RGB: the channels in reverse order
SwapChannels(value) == [c \in DOMAIN value |-> value[Len(value) + 1 - c]]

\* cv2.resize / torchvision resize of a one-colour patch: the size changes, the
\* colour does not (interpolation is a convex combination of the pixels)
Resize(patch, h, w) == Patch(patch.value, h, w)

\* apply_gfpgan_superres: upscale by scale_factor through BGR and back, no
\* enhancement, then restored_torch / 255.0
apply_gfpgan_superres(face_tensor, scale_factor) ==
    LET new_h == RatInt(Rat(face_tensor.h * scale_factor.n, scale_factor.d))
        new_w == RatInt(Rat(face_tensor.w * scale_factor.n, scale_factor.d))
        face_np_bgr == Patch(SwapChannels(face_tensor.value), face_tensor.h, face_tensor.w)
        restored_bgr == Resize(face_np_bgr, new_h, new_w)
        restored_rgb == SwapChannels(restored_bgr.value)
    IN Patch([c \in DOMAIN restored_rgb |->
                 Rat(restored_rgb[c].n, restored_rgb[c].d * uint8_max)],
             new_h, new_w)

\* apply_codeformer_superres: the same steps
apply_codeformer_superres(face_tensor, scale_factor) ==
    LET new_h == RatInt(Rat(face_tensor.h * scale_factor.n, scale_factor.d))
        new_w == RatInt(Rat(face_tensor.w * scale_factor.n, scale_factor.d))
        face_np_bgr == Patch(SwapChannels(face_tensor.value), face_tensor.h, face_tensor.w)
        result_bgr == Resize(face_np_bgr, new_h, new_w)
        restored_rgb == SwapChannels(result_bgr.value)
    IN Patch([c \in DOMAIN restored_rgb |->
                 Rat(restored_rgb[c].n, restored_rgb[c].d * uint8_max)],
             new_h, new_w)

\* a slip in the trigger: both dimensions required to be smaller
SuperresDueBoth(superres, face_h, face_w, height, width) ==
    superres # "none" /\ (face_h < height /\ face_w < width)

\* self.superres != "none" and (face_h < height or face_w < width)
SuperresDue(superres, face_h, face_w, height, width) ==
    superres # "none" /\ (face_h < height \/ face_w < width)

\* scale_factor = max(height / face_h, width / face_w)
ScaleFactor(face_h, face_w, height, width) ==
    RatMax(Rat(height, face_h), Rat(width, face_w))

\* ((face / 2 + 0.5).clamp(0, 1) * 255).to(torch.uint8) for one channel
ToUint8(v) ==
    LET n == v.n + v.d
        d == 2 * v.d
    IN IF n <= 0 THEN 0
       ELSE IF n >= d THEN uint8_max
       ELSE (uint8_max * n) \div d

\* one iteration of `for index, face in enumerate(faces)` in restore_video
RestoreFrame ==
    /\ pc = "restore"
    /\ rest.index < Len(rest.faces)
    /\ LET index == rest.index
           generated == rest.faces[index + 1]
           box == prep.boxes[index + 1]
           height == box.y2 - box.y1
           width == box.x2 - box.x1
           face == Patch([c \in 1..3 |-> Rat(generated.value[c], 1)],
                         prep.height, prep.width)
           due == SuperresDue(self.superres, face.h, face.w, height, width)
           scale_factor == ScaleFactor(face.h, face.w, height, width)
           called == IF due /\ self.superres \in {"GFPGAN", "CodeFormer"}
                     THEN self.superres ELSE ""
           upscaled == IF called = "GFPGAN" THEN apply_gfpgan_superres(face, scale_factor)
                       ELSE IF called = "CodeFormer"
                            THEN apply_codeformer_superres(face, scale_factor)
                            ELSE face
           resized == Resize(upscaled, height, width)
           image == [c \in 1..3 |-> ToUint8(resized.value[c])]
           out_frame == [frame |-> rest.video_frames[index + 1],
                         face |-> generated.face,
                         box |-> box.frame,
                         affine_matrix |-> prep.affine_matrices[index + 1],
                         image |-> image]
       IN rest' = [rest EXCEPT
              !.index = index + 1,
              !.out_frames = Append(@, out_frame),
              !.last = [entered |-> TRUE, index |-> index, face |-> face,
                        height |-> height, width |-> width, superres |-> called,
                        scale_factor |-> IF due THEN scale_factor ELSE Rat(0, 1),
                        upscaled |-> upscaled, resized |-> resized, image |-> image]]
    /\ UNCHANGED <<args, env, pc, raised, self, generator, effects, prep, chunk,
                   step, synced_video_frames, mux>>

\* int(frames / video_fps * audio_sample_rate)
AudioRemainLength(frames, video_fps, audio_sample_rate) ==
    (frames * audio_sample_rate) \div video_fps

\* np.stack(out_frames); the audio trimmed to the frames; unet.train() if is_train
TrimAudio ==
    /\ pc = "restore"
    /\ rest.index = Len(rest.faces)
    /\ rest' = [rest EXCEPT !.stacked = TRUE]
    /\ LET audio_samples_remain_length ==
               AudioRemainLength(Len(rest.out_frames), args.video_fps,
                                 args.audio_sample_rate)
       IN mux' = [mux EXCEPT
              !.audio_samples_remain_length = audio_samples_remain_length,
              !.audio_samples = Min(prep.audio_samples, audio_samples_remain_length)]
    /\ self' = [self EXCEPT !.unet_training = IF prep.is_train THEN TRUE ELSE @]
    /\ pc' = "mux"
    /\ UNCHANGED <<args, env, raised, generator, effects, prep, chunk, step,
                   synced_video_frames>>

\* the temp directory, write_video(..., fps=25), sf.write, and ffmpeg
Mux ==
    /\ pc = "mux"
    /\ mux' = [mux EXCEPT
           !.video = [frames |-> Len(rest.out_frames), fps |-> write_video_fps],
           !.audio = [samples |-> mux.audio_samples, rate |-> args.audio_sample_rate],
           !.muxed = TRUE]
    /\ effects' = effects \cup {"temp_dir", "files_written"}
    /\ pc' = "done"
    /\ UNCHANGED <<args, env, raised, self, generator, prep, chunk, step,
                   synced_video_frames, rest>>

Next ==
    \/ Enter
    \/ CheckFfmpeg
    \/ AffineTransformVideo
    \/ ReadAudio
    \/ CheckInputs
    \/ SetTimesteps
    \/ AudioFeatures
    \/ PrepareLatents
    \/ ChunkSetup
    \/ DenoiseStep
    \/ DecodeComposite
    \/ RestoreVideoEnter
    \/ RestoreFrame
    \/ TrimAudio
    \/ Mux

Spec == Init /\ [][Next]_vars

----------------------------------------------------------------------------
(* Properties *)

\* the usable length L, from the inputs
UsableLength ==
    IF env.add_audio_layer THEN Min(env.video_len, env.whisper_len) ELSE env.video_len

\* the call has ended, and not on a missing encoder, a video without frames, a
\* configuration error or a callback that aborted it: it went through the
\* chunk loop
EndedPastValidation ==
    /\ pc \in {"done", "raised"}
    /\ raised \notin {"check_ffmpeg_installed", "affine_transform_video",
                      "check_inputs", "callback"}

\* C1: every run (N >= 1, L >= 0) processes exactly floor(L / N) chunks and its
\* restored output sequence holds exactly N * floor(L / N) frames, never more.
C1_ChunksAndFrames ==
    EndedPastValidation =>
        /\ Len(synced_video_frames) = UsableLength \div args.num_frames
        /\ rest.stacked
        /\ Len(rest.out_frames) = args.num_frames * (UsableLength \div args.num_frames)

\* the same counts for the runs with at least one full window (L >= N)
C1_FullWindows ==
    (EndedPastValidation /\ UsableLength >= args.num_frames) =>
        /\ pc = "done"
        /\ Len(synced_video_frames) = UsableLength \div args.num_frames
        /\ Len(rest.out_frames) = args.num_frames * (UsableLength \div args.num_frames)

\* the indices [i * N, (i + 1) * N) as a list
Window(i, n) == [k \in 1..n |-> i * n + k - 1]

\* the indices of the real (not null) embeddings in a batch of embeddings
RealIdx(embeds) ==
    LET real == SelectSeq(embeds, LAMBDA e : ~e.zero)
    IN [k \in DOMAIN real |-> real[k].idx]

\* C2: windows are disjoint, contiguous and in order: chunk i reads exactly the
\* face crops, audio embeddings and noise frames [i * N, (i + 1) * N), no index
\* is read twice, and output frame k is the generated face of index k pasted
\* into original frame k with bounding box k and affine matrix k, for every
\* k < num_inferences * N.
C2_Windows ==
    /\ pc \in {"denoise", "decode"} =>
          /\ chunk.inference_faces = Window(chunk.i, args.num_frames)
          /\ [k \in DOMAIN chunk.noise |-> chunk.noise[k].frame]
                 = Window(chunk.i, args.num_frames)
          /\ env.add_audio_layer =>
                 RealIdx(chunk.audio_embeds) = Window(chunk.i, args.num_frames)
    /\ LET generated == Cat(synced_video_frames) IN
          \A p \in DOMAIN generated :
              /\ generated[p].face = p - 1
              /\ generated[p].decoded.latents.noise[generated[p].decoded.frame + 1].frame
                     = p - 1
    /\ \A p \in DOMAIN rest.out_frames :
          /\ rest.out_frames[p].face = p - 1
          /\ rest.out_frames[p].frame = p - 1
          /\ rest.out_frames[p].box = p - 1
          /\ rest.out_frames[p].affine_matrix = p - 1
    /\ pc = "done" => Len(rest.out_frames) = prep.num_inferences * args.num_frames

\* a run that restored two windows of two frames each, audio-conditioned
C2_Witness ==
    /\ pc = "done"
    /\ env.add_audio_layer
    /\ args.num_frames = 2
    /\ prep.num_inferences = 2
    /\ Len(rest.out_frames) = 4
    /\ env.video_len = 5

\* the work the claim says has not happened when a configuration error is raised
HeavyWork == {"video_read", "faces_aligned", "audio_read", "tensor_allocated"}

\* C3: a configuration error makes __call__ raise before any frame or audio
\* processing: when it is raised no video frame has been read or aligned, no
\* audio has been read and no tensor has been allocated.
C3_FailFast == raised = "check_inputs" => effects \cap HeavyWork = {}

\* C4: audio/video duration parity: the audio handed to the mux has exactly
\* int(F / video_fps * audio_sample_rate) samples, F = num_inferences * N, and
\* its duration is the duration of the silent video written for the mux, F
\* frames at the rate it is written with (to within the one sample int() drops).
\* Stated for the runs whose input audio is at least that long.
C4_Parity ==
    (pc = "done" /\ prep.audio_samples >= mux.audio_samples_remain_length) =>
        LET F == prep.num_inferences * args.num_frames IN
        /\ mux.video.frames = F
        /\ mux.audio.samples = (F * args.audio_sample_rate) \div args.video_fps
        /\ mux.audio.samples * mux.video.fps <= mux.video.frames * mux.audio.rate
        /\ mux.video.frames * mux.audio.rate < (mux.audio.samples + 1) * mux.video.fps

\* C5: in restore_video, with superres "GFPGAN" or "CodeFormer" the upscaling
\* step is invoked if and only if face_h < height or face_w < width (height =
\* y2 - y1, width = x2 - x1), with scale_factor = max(height / face_h,
\* width / face_w); with superres "none" it is never invoked and the patch is
\* resized directly to (height, width).
C5_SuperresTrigger ==
    rest.last.entered =>
        LET l == rest.last
            box == prep.boxes[l.index + 1]
            height == box.y2 - box.y1
            width == box.x2 - box.x1
            face_h == l.face.h
            face_w == l.face.w
            smaller == face_h < height \/ face_w < width
        IN /\ self.superres \in {"GFPGAN", "CodeFormer"} =>
                 /\ (l.superres # "") <=> smaller
                 /\ smaller =>
                       /\ l.superres = self.superres
                       \* scale_factor is the larger of the two ratios
                       /\ l.scale_factor.n * face_h >= height * l.scale_factor.d
                       /\ l.scale_factor.n * face_w >= width * l.scale_factor.d
                       /\ \/ l.scale_factor.n * face_h = height * l.scale_factor.d
                          \/ l.scale_factor.n * face_w = width * l.scale_factor.d
                       /\ l.upscaled.h = (face_h * l.scale_factor.n) \div l.scale_factor.d
                       /\ l.upscaled.w = (face_w * l.scale_factor.n) \div l.scale_factor.d
                 /\ ~smaller => l.upscaled = l.face
           /\ self.superres = "none" =>
                 /\ l.superres = ""
                 /\ l.upscaled = l.face
                 /\ l.resized = [l.face EXCEPT !.h = height, !.w = width]

\* GFPGAN invoked for a patch smaller than its box in height only
C5_Witness ==
    /\ rest.last.entered
    /\ rest.last.superres = "GFPGAN"
    /\ rest.last.face.h < rest.last.height
    /\ rest.last.face.w >= rest.last.width

\* C6: at step index j of the denoising loop a progress tick fires if j is the
\* final index and otherwise only if (j + 1) > num_warmup_steps and (j + 1) is a
\* multiple of scheduler.order, num_warmup_steps = len(timesteps) -
\* num_inference_steps * scheduler.order; the callback is invoked only at firing
\* steps, among those only when j % callback_steps = 0, never at a non-firing
\* step, and at most once per step.
C6_Cadence ==
    /\ step.called =>
          LET j == step.j
              last == env.timesteps_len - 1
              warmup == env.timesteps_len - args.num_inference_steps * env.order
              firing == IF j = last THEN TRUE
                        ELSE (j + 1) > warmup /\ (j + 1) % env.order = 0
          IN /\ step.tick <=> firing
             /\ step.callback_calls \in {0, 1}
             /\ step.callback_calls = 1 <=>
                    (firing /\ args.callback /\ j % args.callback_steps.val = 0)
    /\ \A p \in DOMAIN chunk.callbacks :
          /\ \E q \in DOMAIN chunk.progress : chunk.progress[q] = chunk.callbacks[p]
          /\ \A q \in DOMAIN chunk.callbacks : chunk.callbacks[q] = chunk.callbacks[p] => q = p

\* a chunk with a step that did not fire, a firing step without the callback,
\* and a callback call
C6_Witness ==
    /\ chunk.callbacks # <<>>
    /\ Len(chunk.progress) > Len(chunk.callbacks)
    /\ Len(chunk.steps) > Len(chunk.progress)

\* C7: the local composite keeps everything outside the regenerated region:
\* each composited pixel is the decoded value where the regeneration mask
\* (1 - masks at the call) is 1 and the original input pixel where it is 0; with
\* the regeneration mask all zero the composite is the original pixels and the
\* decoded content contributes nothing.
C7_Composite ==
    \A c \in DOMAIN synced_video_frames :
        \A f \in DOMAIN synced_video_frames[c] :
            LET frame == synced_video_frames[c][f]
                regenerate == 1 - env.mask
            IN /\ regenerate = 1 => frame.value = frame.decoded.value
               /\ regenerate = 0 => frame.value = env.pixel

\* a composited chunk whose regeneration mask is zero and whose decoded pixels
\* differ from the original ones
C7_Witness ==
    /\ synced_video_frames # <<>>
    /\ 1 - env.mask = 0
    /\ env.decoded # env.pixel
    /\ synced_video_frames[1][1].value = env.pixel

\* the last denoising step is a step of the chunk in progress
StepOfChunk == pc \in {"denoise", "decode"} /\ chunk.j > 0 /\ step.called

\* C8: under guidance (guidance_scale > 1) with an audio-conditioned denoiser,
\* at every chunk and timestep the unconditional branch receives an all-zero
\* embedding of the shape of the chunk's real N-frame slice, the batch position
\* given the zeros is the one read back as pred_uncond, and the prediction passed
\* to the scheduler is pred_uncond + guidance_scale * (pred_cond - pred_uncond);
\* with guidance_scale <= 1 the batch is not doubled and the prediction passed
\* to the scheduler is the single conditional prediction.
C8_Guidance ==
    (StepOfChunk /\ env.add_audio_layer) =>
        LET g == args.guidance_scale
            i == chunk.i
            slice == [k \in 1..args.num_frames |-> Embed(i * args.num_frames + k - 1)]
            conds == {step.unet_out[b].cond : b \in DOMAIN step.unet_out}
            nulls == {c \in conds : \A k \in DOMAIN c : c[k].zero}
        IN IF g.n > g.d
           THEN /\ step.doubled
                /\ Len(step.unet_out) = 2
                /\ Len(step.encoder_hidden_states) = 2 * args.num_frames
                /\ conds = nulls \cup {slice}
                /\ \A c \in nulls : Len(c) = Len(slice)
                /\ Cardinality(nulls) = 1
                \* g.d * pred = g.d * pred_uncond + g.n * (pred_cond - pred_uncond),
                \* pred_uncond and pred_cond the UNet's outputs for the null and
                \* the real conditioning
                /\ step.noise_pred.n * g.d =
                       step.noise_pred.d
                         * (g.d * env.unet_null + g.n * (env.unet_audio - env.unet_null))
           ELSE /\ ~step.doubled
                /\ Len(step.unet_out) = 1
                /\ step.encoder_hidden_states = slice
                /\ step.unet_out[1].cond = slice
                /\ RatEq(step.noise_pred, Rat(env.unet_audio, 1))

\* a guided, audio-conditioned step of the second chunk, the UNet answering the
\* null and the real conditioning differently
C8_Witness ==
    /\ StepOfChunk
    /\ chunk.i = 1
    /\ env.add_audio_layer
    /\ args.guidance_scale = Rat(3, 2)
    /\ args.num_frames = 2
    /\ env.unet_null # env.unet_audio
    /\ step.noise_pred = Rat(2 * env.unet_null + 3 * (env.unet_audio - env.unet_null), 2)

\* C9: a patch that went through super-resolution re-enters restoration in the
\* pixel-value convention of a patch that skipped it: the tensor returned by
\* apply_gfpgan_superres / apply_codeformer_superres has the value range of the
\* tensor it was given (a one-colour patch comes back in its colour).
C9_SameConvention ==
    (rest.last.entered /\ rest.last.superres # "") =>
        \A c \in 1..3 : RatEq(rest.last.upscaled.value[c], rest.last.face.value[c])

\* the generator draw the run-wide noise was made with
NoiseDraw == prep.all_latents[1].draw

\* C10: chunk independence: the frames of chunk i depend only on chunk i's own
\* face crops, audio slice and noise slice plus the run configuration, not on
\* state left behind by earlier chunks: every chunk's VAE posteriors are
\* sampled from the generator as the chunk loop found it, whichever chunks ran
\* before.
C10_Independence ==
    /\ pc \in {"denoise", "decode"} =>
          /\ chunk.generator_in = NoiseDraw + 1
          /\ chunk.masked_image_latents[1].draw = NoiseDraw + 1
          /\ chunk.image_latents[1].draw = NoiseDraw + 2
    /\ \A c \in DOMAIN synced_video_frames :
          \A f \in DOMAIN synced_video_frames[c] :
              synced_video_frames[c][f].generator_in = NoiseDraw + 1


\* the noise slice of window i: copies i * N .. (i + 1) * N - 1 of the one frame
\* drawn for the run
NoiseWindow(i) ==
    [k \in 1..args.num_frames |-> [draw |-> NoiseDraw, frame |-> i * args.num_frames + k - 1]]

\* the sample got from the noise slice of window i by the scheduler steps at
\* the first n timesteps, in list order
Stepped(i, n) == <<[noise |-> NoiseWindow(i), steps |-> SubSeq(prep.timesteps, 1, n)]>>

\* C11: the denoising loop of a chunk is strictly sequential: it starts from
\* the chunk's slice of the single run-wide noise draw, the scheduler step is
\* invoked exactly once per entry of the timestep list, in list order, the
\* latent passed to step j + 1 is exactly the latent returned by step j, and the
\* latent decoded for the chunk is the one returned by the last step.
C11_Sequential ==
    /\ pc \in {"denoise", "decode"} =>
          /\ chunk.steps = SubSeq(prep.timesteps, 1, chunk.j)
          /\ chunk.latents = Stepped(chunk.i, chunk.j)
          /\ pc = "decode" <=> chunk.j = Len(prep.timesteps)
    /\ StepOfChunk =>
          /\ step.j = chunk.j - 1
          /\ step.t = prep.timesteps[step.j + 1]
          /\ step.latents_in = Stepped(chunk.i, step.j)
          /\ step.latents_out = Stepped(chunk.i, step.j + 1)
          /\ chunk.latents = step.latents_out
          /\ \A b \in DOMAIN step.sample : step.sample[b].latents = step.latents_in[1]
    /\ \A c \in DOMAIN synced_video_frames :
          \A f \in DOMAIN synced_video_frames[c] :
              <<synced_video_frames[c][f].decoded.latents>>
                  = Stepped(c - 1, Len(prep.timesteps))

\* once a step of a chunk has run, the next step of that chunk is given the
\* latent that step returned
C11_Chained ==
    [][(StepOfChunk /\ pc = "denoise" /\ pc' \in {"denoise", "decode"}
          /\ chunk'.j = chunk.j + 1)
        => step'.latents_in = step.latents_out]_vars

\* the second chunk decoded after more than one scheduler step
C11_Witness ==
    /\ Len(synced_video_frames) = 2
    /\ Len(prep.timesteps) >= 2
    /\ synced_video_frames[2][1].decoded.latents.steps = prep.timesteps
    /\ step.latents_in # step.latents_out


\* C12: __call__ leaves the denoiser's training/eval mode as it found it on every
\* exit path: whenever a call ends, by returning or by raising (configuration
\* error, collaborator failure, callback raising to abort), the denoiser is in
\* training mode if and only if it was when the call began.
C12_ModeRestored ==
    pc \in {"done", "raised"} => (self.unet_training <=> env.unet_training)

\* the same for the calls that return
C12_ModeRestoredOnReturn ==
    pc \in {"mux", "done"} => (self.unet_training <=> env.unet_training)

====
